---- MODULE Spec2Model ----
(***************************************************************************)
(* A model of the EuPlatesc payment gateway client (EuPlatescClient):     *)
(* the canonical signer (generateHash / generateUapiHash), the callback   *)
(* verifier (verifyResponse), the operation builders and the envelope     *)
(* normalizer (makeWebServiceRequest).                                    *)
(*                                                                         *)
(* Representation.                                                         *)
(*  - A JavaScript string is a TLA+ string; value.length is Len.          *)
(*  - A JavaScript value that may be undefined is a tuple of length <= 1: *)
(*    <<v>> is the value v, <<>> is undefined.                            *)
(*  - An object literal whose insertion order matters (the ordered field  *)
(*    set) is a sequence of [name, value] records.                        *)
(*  - An object whose order does not matter (a request, a callback map, a *)
(*    uniform result, a JSON map) is a function whose DOMAIN is the set   *)
(*    of its own keys.                                                     *)
(*  - HMAC-MD5 is idealised as collision free: the digest of (key bytes,  *)
(*    message) is the record of the two; hex output carries its case.     *)
(*    Strings are well-formed text, on which the utf8 encoding of the     *)
(*    HMAC input and the form encoding of a payload are injective; a      *)
(*    payload is kept as its ordered fields.                              *)
(***************************************************************************)
EXTENDS Integers, Sequences, FiniteSets, TLC

VARIABLES
    config,      \* this.config: [merchantId, secretKey]
    wsConfig,    \* this.wsConfig: <<>> (undefined) or <<[userKey, uapiKey]>>
    pc,          \* position of the invocation in progress
    op,          \* name of the public operation invoked ("" when idle)
    request,     \* the argument of the invocation
    body,        \* the payload handed to the transport / put in the redirect URL
    fetchCalls,  \* transport calls issued by the invocation in progress
    outcome,     \* how the invocation ended: <<>> while running, else <<[kind, ...]>>
    reply,       \* how the transport settled the fetch: <<>> until it has
    original,    \* verify specification: the callback as the gateway sent it
    fields,      \* sign specification: first ordered field set
    other,       \* sign specification: second ordered field set
    signer,      \* sign specification: which signer is exercised
    sig1,        \* sign specification: signature of fields, <<>> before signing
    sig2         \* sign specification: signature of other, <<>> before signing

vars == <<config, wsConfig, pc, op, request, body, fetchCalls, outcome, reply,
          original, fields, other, signer, sig1, sig2>>

signVars == <<fields, other, signer, sig1, sig2>>

(***************************************************************************)
(* Generic helpers                                                         *)
(***************************************************************************)
Undefined == <<>>
Some(v) == <<v>>
IsDefined(o) == Len(o) > 0
Value(o) == o[1]

\* { ...a, ...b }: the keys of both, b's value winning
Spread(a, b) ==
    [k \in (DOMAIN a) \cup (DOMAIN b) |-> IF k \in DOMAIN b THEN b[k] ELSE a[k]]

Field(n, v) == [name |-> n, value |-> Some(v)]

RECURSIVE SeqsOfLen(_, _)
SeqsOfLen(S, n) ==
    IF n = 0 THEN { <<>> }
    ELSE { <<x>> \o s : x \in S, s \in SeqsOfLen(S, n - 1) }

(***************************************************************************)
(* Buffer.from(key, 'hex'): two hex digits per byte, either case, decoding *)
(* stops at the first pair that is not hex.                                *)
(***************************************************************************)
HexDigits == <<"0", "1", "2", "3", "4", "5", "6", "7", "8", "9",
               "a", "b", "c", "d", "e", "f">>
UpperHexDigits == <<"0", "1", "2", "3", "4", "5", "6", "7", "8", "9",
                    "A", "B", "C", "D", "E", "F">>

IsHexDigit(c) == \E i \in 1..16 : HexDigits[i] = c \/ UpperHexDigits[i] = c
HexDigitValue(c) ==
    (CHOOSE i \in 1..16 : HexDigits[i] = c \/ UpperHexDigits[i] = c) - 1

RECURSIVE BufferFromHex(_)
BufferFromHex(chars) ==
    IF Len(chars) < 2 THEN <<>>
    ELSE IF ~(IsHexDigit(chars[1]) /\ IsHexDigit(chars[2])) THEN <<>>
    ELSE <<16 * HexDigitValue(chars[1]) + HexDigitValue(chars[2])>>
         \o BufferFromHex(SubSeq(chars, 3, Len(chars)))

\* the key as the configuration holds it: one string of hex digits
KeyText(chars) ==
    LET RECURSIVE Cat(_)
        Cat(i) == IF i > Len(chars) THEN "" ELSE chars[i] \o Cat(i + 1)
    IN Cat(1)

(***************************************************************************)
(* createHmac('md5', key).update(input, 'utf8').digest('hex').toUpperCase()*)
(***************************************************************************)
HmacDigestHex(keyBytes, input) == [key |-> keyBytes, msg |-> input, hex |-> "lower"]
ToUpperCase(h) == [h EXCEPT !.hex = "upper"]
ToLowerCase(h) == [h EXCEPT !.hex = "lower"]

(***************************************************************************)
(* The canonical signer.  Object.values(data) is the values in insertion  *)
(* order; value.length on undefined throws a TypeError, which is modelled  *)
(* by the result <<>> (no hash is produced).                               *)
(***************************************************************************)
ObjectValues(data) == [i \in 1..Len(data) |-> data[i].value]

AllDefined(values) == \A i \in 1..Len(values) : IsDefined(values[i])

\* HmacInput with the decimal length prefix left out
HmacInputNoPrefix(values) ==
    LET RECURSIVE Cat(_)
        Cat(i) == IF i > Len(values) THEN ""
                  ELSE (IF Len(Value(values[i])) > 0
                        THEN Value(values[i]) ELSE "-") \o Cat(i + 1)
    IN Cat(1)

\* the loop of generateHash: hmacInput += value.length > 0 ? value.length + value : '-'
HmacInput(values) ==
    LET RECURSIVE Cat(_)
        Cat(i) == IF i > Len(values) THEN ""
                  ELSE (IF Len(Value(values[i])) > 0
                        THEN ToString(Len(Value(values[i]))) \o Value(values[i])
                        ELSE "-") \o Cat(i + 1)
    IN Cat(1)

\* UapiHmacInput with an empty value contributing nothing
UapiHmacInputNoPlaceholder(values) ==
    LET RECURSIVE Cat(_)
        Cat(i) == IF i > Len(values) THEN ""
                  ELSE (IF Len(Value(values[i])) > 0
                        THEN ToString(Len(Value(values[i]))) \o Value(values[i])
                        ELSE "") \o Cat(i + 1)
    IN Cat(1)

\* the same loop, as written a second time in generateUapiHash
UapiHmacInput(values) ==
    LET RECURSIVE Cat(_)
        Cat(i) == IF i > Len(values) THEN ""
                  ELSE (IF Len(Value(values[i])) > 0
                        THEN ToString(Len(Value(values[i]))) \o Value(values[i])
                        ELSE "-") \o Cat(i + 1)
    IN Cat(1)

generateHash(data) ==
    IF ~AllDefined(ObjectValues(data)) THEN Undefined   \* TypeError thrown
    ELSE Some(ToUpperCase(HmacDigestHex(BufferFromHex(config.secretKey),
                                        HmacInput(ObjectValues(data)))))

\* generateUapiHash keyed with the primary secret key
generateUapiHashWithSecretKey(data) ==
    IF ~IsDefined(wsConfig) THEN Undefined
    ELSE IF ~AllDefined(ObjectValues(data)) THEN Undefined
    ELSE Some(ToUpperCase(HmacDigestHex(BufferFromHex(config.secretKey),
                                        UapiHmacInput(ObjectValues(data)))))

generateUapiHash(data) ==
    IF ~IsDefined(wsConfig) THEN Undefined              \* EuPlatescError thrown
    ELSE IF ~AllDefined(ObjectValues(data)) THEN Undefined   \* TypeError thrown
    ELSE Some(ToUpperCase(HmacDigestHex(BufferFromHex(Value(wsConfig).uapiKey),
                                        UapiHmacInput(ObjectValues(data)))))

(***************************************************************************)
(* verifyResponse.  responseData is a map; destructuring a key it lacks    *)
(* gives undefined.                                                        *)
(***************************************************************************)
Get(obj, k) == IF k \in DOMAIN obj THEN Some(obj[k]) ELSE Undefined

\* VerifiedFields without approval
VerifiedFieldsNoApproval ==
    <<"amount", "curr", "invoice_id", "ep_id", "merch_id",
      "action", "message", "timestamp", "nonce">>

\* the object literal handed to generateHash, in its insertion order
VerifiedFields ==
    <<"amount", "curr", "invoice_id", "ep_id", "merch_id",
      "action", "message", "approval", "timestamp", "nonce">>

VerifyData(responseData) ==
    [i \in 1..Len(VerifiedFields) |->
        [name |-> VerifiedFields[i], value |-> Get(responseData, VerifiedFields[i])]]

\* a comparison that ignores the case of the hex digits
HashDiffersIgnoringCase(calculatedHash, fp_hash) ==
    \/ ~IsDefined(fp_hash)
    \/ ToLowerCase(Value(calculatedHash)) # ToLowerCase(Value(fp_hash))

\* calculatedHash !== fp_hash
HashDiffers(calculatedHash, fp_hash) == calculatedHash # fp_hash

Returned(v) == Some([kind |-> "returned", value |-> v])
Raised(errorClass, msg) == Some([kind |-> "raised", error |-> errorClass, message |-> msg])

TransactionStatusOf(responseData) ==
    [epId |-> Get(responseData, "ep_id"),
     invoiceId |-> Get(responseData, "invoice_id"),
     amount |-> Get(responseData, "amount"),
     currency |-> Get(responseData, "curr"),
     status |-> Get(responseData, "action"),
     message |-> Get(responseData, "message"),
     approval |-> Get(responseData, "approval"),
     timestamp |-> Get(responseData, "timestamp"),
     nonce |-> Get(responseData, "nonce"),
     fpHash |-> Get(responseData, "fp_hash")]

verifyResponse(responseData) ==
    LET calculatedHash == generateHash(VerifyData(responseData))
        fp_hash == Get(responseData, "fp_hash")
    IN IF ~IsDefined(calculatedHash)
       THEN Raised("TypeError", "Cannot read properties of undefined (reading 'length')")
       ELSE IF HashDiffers(calculatedHash, fp_hash)
       THEN Raised("EuPlatescError", "Invalid response signature")
       ELSE Returned(TransactionStatusOf(responseData))

(***************************************************************************)
(* JavaScript / JSON values handled by the envelope normalizer: a record   *)
(* with one field, named after the value's type and holding its payload;   *)
(* an object's payload is the function from its keys to their values.      *)
(***************************************************************************)
JNull == [null |-> TRUE]
JStr(str) == [string |-> str]
JNum(n) == [number |-> n]
JBool(b) == [boolean |-> b]
JArray(elems) == [array |-> elems]
JObject(f) == [object |-> f]
EmptyObject == [k \in {} |-> k]

IsObject(x) == "object" \in DOMAIN x
IsArray(x) == "array" \in DOMAIN x

\* `key in x` throws a TypeError unless x is an object (an array is one)
InThrows(x) == ~(IsObject(x) \/ IsArray(x))
In(key, x) == IsObject(x) /\ key \in DOMAIN x.object

\* x?.key : undefined for undefined, null, a primitive and a missing key
OptionalMember(x, key) ==
    IF ~IsDefined(x) THEN Undefined
    ELSE IF In(key, Value(x)) THEN Some(Value(x).object[key])
    ELSE Undefined

(***************************************************************************)
(* What the transport can do with one fetch: reject with a thrown value,   *)
(* or resolve to a response with a status and a body that parses as JSON   *)
(* or does not.                                                            *)
(***************************************************************************)
Rejects(isError, msg) == [kind |-> "rejects", isError |-> isError, message |-> msg]
Responds(status, payload) == [kind |-> "responds", status |-> status, body |-> payload]
NotJson == Undefined
Json(x) == Some(x)

\* response.ok
Ok(status) == status >= 200 /\ status <= 299

Failure(msg) == [success |-> FALSE, message |-> msg]
Success(data) == [success |-> TRUE, data |-> data]

\* a failure that carries no message
CaughtNoMessage(isError, msg) == [success |-> FALSE]

\* the catch clause: error instanceof Error ? error.message : 'Unknown error occurred'
Caught(isError, msg) ==
    Failure(IF isError THEN JStr(msg) ELSE JStr("Unknown error occurred"))

\* the try block without its catch clause: a thrown error escapes as <<>>
normalizeUncaught(settled) ==
    IF settled.kind = "rejects" THEN Undefined
    ELSE IF ~Ok(settled.status)
    THEN Some(Failure(JStr("HTTP error! status: " \o ToString(settled.status))))
    ELSE IF ~IsDefined(settled.body) THEN Undefined
    ELSE LET result == Value(settled.body)
         IN IF InThrows(result) THEN Undefined
            ELSE IF In("error", result) THEN Some(Failure(result.object["error"]))
            ELSE IF In("cards", result) THEN Some(Success(result))
            ELSE IF ~In("success", result) THEN Some(Success(result))
            ELSE Some(Success(result.object["success"]))

\* normalize with the cards test made before the error test
normalizeCardsFirst(settled) ==
    IF settled.kind = "rejects" THEN Some(Caught(settled.isError, settled.message))
    ELSE IF ~Ok(settled.status)
    THEN Some(Failure(JStr("HTTP error! status: " \o ToString(settled.status))))
    ELSE IF ~IsDefined(settled.body)
    THEN Some(Caught(TRUE, "Unexpected token in JSON"))
    ELSE LET result == Value(settled.body)
         IN IF InThrows(result)
            THEN Some(Caught(TRUE, "Cannot use 'in' operator to search for 'error'"))
            ELSE IF In("cards", result) THEN Some(Success(result))
            ELSE IF In("error", result) THEN Some(Failure(result.object["error"]))
            ELSE IF ~In("success", result) THEN Some(Success(result))
            ELSE Some(Success(result.object["success"]))

\* the body of makeWebServiceRequest after fetch has settled with `reply`;
\* <<result>> when it returns, <<>> when it throws
normalize(settled) ==
    IF settled.kind = "rejects" THEN Some(Caught(settled.isError, settled.message))
    ELSE IF ~Ok(settled.status)
    THEN Some(Failure(JStr("HTTP error! status: " \o ToString(settled.status))))
    ELSE IF ~IsDefined(settled.body)
    THEN Some(Caught(TRUE, "Unexpected token in JSON"))          \* response.json() rejects
    ELSE LET result == Value(settled.body)
         IN IF InThrows(result)
            THEN Some(Caught(TRUE, "Cannot use 'in' operator to search for 'error'"))
            ELSE IF In("error", result) THEN Some(Failure(result.object["error"]))
            ELSE IF In("cards", result) THEN Some(Success(result))
            ELSE IF ~In("success", result) THEN Some(Success(result))
            ELSE Some(Success(result.object["success"]))

\* refund / capture with the nested success indicator read one level too high
booleanResultOfFlag(response) ==
    Spread(response,
           [data |-> JBool(response.success
                           /\ Get(response, "data") = Some(JStr("1")))])

\* { ...response, data: response.success && response.data?.success === '1' }
booleanResult(response) ==
    Spread(response,
           [data |-> JBool(response.success
                           /\ OptionalMember(Get(response, "data"), "success")
                                = Some(JStr("1")))])

(***************************************************************************)
(* The operation builders.  A request is a function whose DOMAIN holds the *)
(* keys the caller gave.  A number is an amount in hundredths (50.00 is    *)
(* 5000), so toFixed(2) has nothing to round.                              *)
(***************************************************************************)
\* `x ? a : b` on a string, number or boolean that may be undefined
TruthyString(o) == IsDefined(o) /\ Value(o) # ""
TruthyNumber(o) == IsDefined(o) /\ Value(o) # 0
TruthyBoolean(o) == IsDefined(o) /\ Value(o)

\* x || ''
OrEmpty(o) == IF TruthyString(o) THEN Value(o) ELSE ""

\* amount.toFixed(2) for a non-negative amount in hundredths
toFixed2(hundredths) ==
    ToString(hundredths \div 100) \o "."
    \o ToString((hundredths % 100) \div 10) \o ToString(hundredths % 10)

\* array.join(',')
RECURSIVE Join(_)
Join(elems) ==
    IF Len(elems) = 0 THEN ""
    ELSE IF Len(elems) = 1 THEN elems[1]
    ELSE elems[1] \o "," \o Join(Tail(elems))

\* ...(cond ? { name: value } : {})
Optional(cond, n, v) == IF cond THEN << Field(n, v) >> ELSE << >>

\* { ...data, fp_hash: fpHash }
WithHash(data, fpHash) == data \o << [name |-> "fp_hash", value |-> fpHash] >>

WsRequired == Failure(JStr("WebService configuration required for this operation"))

checkStatusData(req, timestamp, nonce) ==
    << Field("method", "check_status"), Field("mid", config.merchantId),
       Field("timestamp", timestamp), Field("nonce", nonce) >>
    \o Optional(TruthyString(Get(req, "epid")), "epid", req.epid)
    \o Optional(TruthyString(Get(req, "invoiceId")), "invoice_id", req.invoiceId)

\* cancelRecurringData with the uapi key sent as ukey
cancelRecurringDataSendingUapiKey(req, timestamp, nonce) ==
    << Field("method", "cancel_recurring"),
       Field("ukey", KeyText(Value(wsConfig).uapiKey)),
       Field("epid", req.epid), Field("reason", OrEmpty(Get(req, "reason"))),
       Field("timestamp", timestamp), Field("nonce", nonce) >>

cancelRecurringData(req, timestamp, nonce) ==
    << Field("method", "cancel_recurring"), Field("ukey", Value(wsConfig).userKey),
       Field("epid", req.epid), Field("reason", OrEmpty(Get(req, "reason"))),
       Field("timestamp", timestamp), Field("nonce", nonce) >>

refundData(req, timestamp, nonce) ==
    << Field("method", "refund"), Field("ukey", Value(wsConfig).userKey),
       Field("epid", req.epid), Field("amount", toFixed2(req.amount)),
       Field("reason", req.reason),
       Field("timestamp", timestamp), Field("nonce", nonce) >>

captureData(req, timestamp, nonce) ==
    << Field("method", IF TruthyNumber(Get(req, "amount")) THEN "partial_capture" ELSE "capture"),
       Field("ukey", Value(wsConfig).userKey), Field("epid", req.epid) >>
    \o Optional(TruthyNumber(Get(req, "amount")), "amount", toFixed2(req.amount))
    \o << Field("timestamp", timestamp), Field("nonce", nonce) >>

checkMerchantInfoData(req, timestamp, nonce) ==
    << Field("method", "check_mid"), Field("mid", config.merchantId),
       Field("timestamp", timestamp), Field("nonce", nonce) >>

getCardArtData(req, timestamp, nonce) ==
    << Field("method", "cardart"), Field("ukey", Value(wsConfig).userKey),
       Field("ep_id", req.epid),
       Field("timestamp", timestamp), Field("nonce", nonce) >>

getSavedCardsData(req, timestamp, nonce) ==
    << Field("method", "c2p_cards"), Field("mid", config.merchantId),
       Field("c2p_id", req.c2pId),
       Field("timestamp", timestamp), Field("nonce", nonce) >>

getCapturedTotalsData(req, timestamp, nonce) ==
    << Field("method", "captured_total"), Field("ukey", Value(wsConfig).userKey),
       Field("mids", Join(req.mids)),
       Field("from", OrEmpty(Get(req, "from"))), Field("to", OrEmpty(Get(req, "to"))),
       Field("timestamp", timestamp), Field("nonce", nonce) >>

getInvoicesData(req, timestamp, nonce) ==
    << Field("method", "invoices"), Field("ukey", Value(wsConfig).userKey),
       Field("mid", config.merchantId),
       Field("from", OrEmpty(Get(req, "from"))), Field("to", OrEmpty(Get(req, "to"))),
       Field("timestamp", timestamp), Field("nonce", nonce) >>

getInvoiceTransactionsData(req, timestamp, nonce) ==
    << Field("method", "invoice"), Field("ukey", Value(wsConfig).userKey),
       Field("invoice", req.invoiceNumber),
       Field("timestamp", timestamp), Field("nonce", nonce) >>

(***************************************************************************)
(* createPayment                                                           *)
(***************************************************************************)
\* this.endpoint, as the constructor sets it
endpoint ==
    IF TruthyBoolean(Get(config, "testMode"))
    THEN "https://secure.euplatesc.ro/tdsprocess/tranzactd.php"
    ELSE "https://secure.euplatesc.ro/tdsprocess/tranzactd.php"

createPaymentData(req, timestamp, nonce) ==
    << Field("amount", toFixed2(req.amount)), Field("curr", req.currency),
       Field("invoice_id", req.invoiceId), Field("order_desc", req.orderDescription),
       Field("merch_id", config.merchantId),
       Field("timestamp", timestamp), Field("nonce", nonce) >>
    \o Optional(TruthyBoolean(Get(req, "generateEpid")), "generate_epid", "1")
    \o Optional(TruthyString(Get(req, "valability")), "valability", req.valability)
    \o Optional(TruthyString(Get(req, "c2pId")), "c2p_id", req.c2pId)
    \o Optional(TruthyString(Get(req, "c2pCid")), "c2p_cid", req.c2pCid)
    \o Optional(TruthyString(Get(req, "lang")), "lang", req.lang)

\* the renaming table shared by formatBillingDetails and formatShippingDetails
DetailKeys ==
    << <<"name", "sfname", "firstName">>, <<"lname", "slname", "lastName">>,
       <<"company", "scompany", "company">>, <<"add", "sadd", "address">>,
       <<"city", "scity", "city">>, <<"state", "sstate", "state">>,
       <<"zip", "szip", "zipCode">>, <<"country", "scountry", "country">>,
       <<"phone", "sphone", "phone">>, <<"email", "semail", "email">> >>

formatBillingDetails(details) ==
    IF ~IsDefined(details) THEN << >>
    ELSE [i \in 1..Len(DetailKeys) |->
            [name |-> DetailKeys[i][1], value |-> Get(Value(details), DetailKeys[i][3])]]

formatShippingDetails(details) ==
    IF ~IsDefined(details) THEN << >>
    ELSE [i \in 1..Len(DetailKeys) |->
            [name |-> DetailKeys[i][2], value |-> Get(Value(details), DetailKeys[i][3])]]

ExtraDataKeys ==
    << <<"silentUrl", "ExtraData[silenturl]">>, <<"silentUrlSec", "ExtraData[silenturlsec]">>,
       <<"successUrl", "ExtraData[successurl]">>, <<"failedUrl", "ExtraData[failedurl]">>,
       <<"epTarget", "ExtraData[ep_target]">>, <<"epMethod", "ExtraData[ep_method]">>,
       <<"backToSite", "ExtraData[backtosite]">>,
       <<"backToSiteMethod", "ExtraData[backtosite_method]">>,
       <<"expireUrl", "ExtraData[expireurl]">>, <<"rate", "ExtraData[rate]">>,
       <<"filtruRate", "ExtraData[filtru_rate]">> >>

formatExtraData(data) ==
    IF ~IsDefined(data) THEN << >>
    ELSE LET RECURSIVE Strings(_)
             Strings(i) ==
                 IF i > Len(ExtraDataKeys) THEN << >>
                 ELSE Optional(TruthyString(Get(Value(data), ExtraDataKeys[i][1])),
                               ExtraDataKeys[i][2],
                               Value(data)[ExtraDataKeys[i][1]]) \o Strings(i + 1)
         IN Strings(1)
            \o (IF IsDefined(Get(Value(data), "epChannel"))    \* an array is truthy
                THEN << Field("ExtraData[ep_channel]", Join(Value(data).epChannel)) >>
                ELSE << >>)

\* the loop over Object.entries: entries whose value is undefined are skipped
DefinedEntries(entries) == SelectSeq(entries, LAMBDA e : IsDefined(e.value))

\* <<payment response>> when createPayment resolves, <<>> when it throws
createPayment(req, timestamp, nonce) ==
    LET data == createPaymentData(req, timestamp, nonce)
        fpHash == generateHash(data)
    IN IF ~IsDefined(fpHash) THEN Undefined
       ELSE Some([redirectUrl |->
                    [endpoint |-> endpoint,
                     query |-> DefinedEntries(
                                 WithHash(data, fpHash)
                                 \o formatBillingDetails(Get(req, "billingDetails"))
                                 \o formatShippingDetails(Get(req, "shippingDetails"))
                                 \o formatExtraData(Get(req, "extraData")))]])

(***************************************************************************)
(* Sample configuration                                                    *)
(***************************************************************************)
\* hex keys, one character per element; UapiKeySameBytes decodes to the bytes
\* of SecretKey (hex is case-insensitive), UapiKeyOther does not
SecretKey == <<"0", "A", "1", "b">>
UapiKeySameBytes == <<"0", "a", "1", "B">>
UapiKeyOther == <<"c", "2", "D", "3">>

Configs == { [merchantId |-> "M1", secretKey |-> SecretKey] }
WsConfigs == { Some([userKey |-> "U1", uapiKey |-> k]) : k \in {UapiKeySameBytes, UapiKeyOther} }

(***************************************************************************)
(* Specification SignSpec: the signers as pure functions.  Two ordered     *)
(* field sets of the same size are drawn, and each is signed by one call   *)
(* of the chosen signer.                                                   *)
(***************************************************************************)
MaxFields == 2

\* values: empty, short ones that split a text differently between adjacent
\* fields, and ones of 10 characters or more (two-digit length prefix)
SignValues == { "", "1", "a", "aa", "aaaaaaaaaa", "11111111111" }

SignFieldNames == <<"invoice_id", "order_desc", "merch_id", "timestamp", "nonce">>

FieldSet(values) == [i \in 1..Len(values) |-> Field(SignFieldNames[i], values[i])]

Sign(which, data) ==
    IF which = "generateHash" THEN generateHash(data) ELSE generateUapiHash(data)

SignInit ==
    /\ config \in Configs
    /\ wsConfig \in WsConfigs
    /\ signer \in {"generateHash", "generateUapiHash"}
    /\ \E n \in 1..MaxFields :
         /\ fields \in { FieldSet(v) : v \in SeqsOfLen(SignValues, n) }
         /\ other \in { FieldSet(v) : v \in SeqsOfLen(SignValues, n) }
    /\ pc = "start"
    /\ sig1 = Undefined
    /\ sig2 = Undefined
    /\ op = ""
    /\ request = Undefined
    /\ body = Undefined
    /\ fetchCalls = 0
    /\ outcome = Undefined
    /\ original = Undefined
    /\ reply = Undefined

SignFirst ==
    /\ pc = "start"
    /\ sig1' = Sign(signer, fields)
    /\ pc' = "signed1"
    /\ UNCHANGED <<config, wsConfig, op, request, body, fetchCalls, outcome, original, reply,
                   fields, other, signer, sig2>>

SignSecond ==
    /\ pc = "signed1"
    /\ sig2' = Sign(signer, other)
    /\ pc' = "signed2"
    /\ UNCHANGED <<config, wsConfig, op, request, body, fetchCalls, outcome, original, reply,
                   fields, other, signer, sig1>>

SignNext == SignFirst \/ SignSecond

SignSpec == SignInit /\ [][SignNext]_vars

(***************************************************************************)
(* Claims about the signers (checked under SignSpec)                       *)
(***************************************************************************)
PlainValues(data) == [i \in 1..Len(data) |-> Value(data[i].value)]
BothSigned == pc = "signed2" /\ IsDefined(sig1) /\ IsDefined(sig2)
\* every value is shorter than 10 characters: its length prefix is one digit
SingleDigitLengths(data) == \A i \in 1..Len(data) : Len(Value(data[i].value)) < 10
SwapFields(data, i, j) ==
    [k \in 1..Len(data) |->
        [name |-> data[k].name,
         value |-> IF k = i THEN data[j].value
                   ELSE IF k = j THEN data[i].value ELSE data[k].value]]

\* C3 (as stated): two ordered field sets with the same number of fields and
\* different value sequences never give the same HMAC input string.
C3_FramingUnambiguous ==
    (BothSigned /\ PlainValues(fields) # PlainValues(other))
        => Value(sig1).msg # Value(sig2).msg

\* C3 (amended): two ordered field sets with the same number of fields and
\* different value sequences, all of whose values are shorter than 10
\* characters, never give the same HMAC input string.
C3_FramingUnambiguousShortValues ==
    (/\ BothSigned
     /\ PlainValues(fields) # PlainValues(other)
     /\ SingleDigitLengths(fields)
     /\ SingleDigitLengths(other))
        => Value(sig1).msg # Value(sig2).msg

\* C3 witness: the same text split differently between two adjacent fields
\* has been signed both ways, and the two HMAC inputs differ.
C3_Witness ==
    /\ BothSigned
    /\ PlainValues(fields) = <<"aa", "a">>
    /\ PlainValues(other) = <<"a", "aa">>
    /\ Value(sig1).msg = "2aa1a"
    /\ Value(sig2).msg = "1a2aa"

\* C4 (as stated): signing the same fields in the same order with the same
\* key gives the same signature, and exchanging two fields that hold
\* different values changes the HMAC input string and the signature.
C4_DeterministicOrderSensitive ==
    BothSigned =>
        /\ (fields = other => sig1 = sig2)
        /\ \A i, j \in 1..Len(fields) :
              (other = SwapFields(fields, i, j) /\ fields[i].value # fields[j].value)
                  => (Value(sig1).msg # Value(sig2).msg /\ sig1 # sig2)

\* C4 (amended): as C4, for field sets all of whose values are shorter than
\* 10 characters.
C4_DeterministicOrderSensitiveShortValues ==
    BothSigned =>
        /\ (fields = other => sig1 = sig2)
        /\ \A i, j \in 1..Len(fields) :
              (/\ other = SwapFields(fields, i, j)
               /\ fields[i].value # fields[j].value
               /\ SingleDigitLengths(fields))
                  => (Value(sig1).msg # Value(sig2).msg /\ sig1 # sig2)

\* C4 witness: two fields holding different values were exchanged and both
\* orders signed, with different signatures.
C4_Witness ==
    /\ BothSigned
    /\ PlainValues(fields) = <<"", "a">>
    /\ other = SwapFields(fields, 1, 2)
    /\ sig1 # sig2

(***************************************************************************)
(* Specification VerifySpec: a callback is produced by the gateway, may be *)
(* altered on the way, and is handed to verifyResponse.                    *)
(***************************************************************************)
Callbacks ==
    [amount : {"1.00", "10.50"}, curr : {"RON"}, invoice_id : {"INV1"},
     ep_id : {"EP1"}, merch_id : {"M1"}, action : {"0", "1"},
     message : {"Approved"}, approval : {"", "A1"},
     timestamp : {"20240101120000"}, nonce : {"n1", "n2"}]

CallbackFieldNames ==
    {"amount", "curr", "invoice_id", "ep_id", "merch_id",
     "action", "message", "approval", "timestamp", "nonce"}

TamperValues == { "", "1", "aa", "11111111111" }

HashKinds == { "primary", "secondary", "lowercase", "replayed" }

\* the gateway's protocol: the signer over the ten fields in protocol order
GatewayData(cb) ==
    << Field("amount", cb.amount), Field("curr", cb.curr),
       Field("invoice_id", cb.invoice_id), Field("ep_id", cb.ep_id),
       Field("merch_id", cb.merch_id), Field("action", cb.action),
       Field("message", cb.message), Field("approval", cb.approval),
       Field("timestamp", cb.timestamp), Field("nonce", cb.nonce) >>

HashOfKind(kind, cb) ==
    CASE kind = "primary" -> Value(generateHash(GatewayData(cb)))
      [] kind = "secondary" -> Value(generateUapiHash(GatewayData(cb)))
      [] kind = "lowercase" -> ToLowerCase(Value(generateHash(GatewayData(cb))))
      [] kind = "replayed" -> Value(generateHash(GatewayData([cb EXCEPT !.amount = "9.99"])))

VerifyInit ==
    /\ config \in Configs
    /\ wsConfig \in WsConfigs
    /\ request \in { Some(cb) : cb \in Callbacks }
    /\ original = Undefined
    /\ reply = Undefined
    /\ pc = "unsigned"
    /\ op = "verifyResponse"
    /\ body = Undefined
    /\ fetchCalls = 0
    /\ outcome = Undefined
    /\ fields = <<>>
    /\ other = <<>>
    /\ signer = ""
    /\ sig1 = Undefined
    /\ sig2 = Undefined

\* the callback leaves the gateway with an fp_hash of the given kind
GatewaySends(kind) ==
    /\ pc = "unsigned"
    /\ request' = Some(Spread(Value(request), [fp_hash |-> HashOfKind(kind, Value(request))]))
    /\ original' = request'
    /\ pc' = "delivered"
    /\ UNCHANGED <<config, wsConfig, op, body, fetchCalls, outcome, reply, signVars>>

\* the callback leaves the gateway without an fp_hash
GatewaySendsUnsigned ==
    /\ pc = "unsigned"
    /\ original' = request
    /\ pc' = "delivered"
    /\ UNCHANGED <<config, wsConfig, op, request, body, fetchCalls, outcome, reply, signVars>>

\* one field's value is changed on the way, the fp_hash kept
Tamper(k, v) ==
    /\ pc = "delivered"
    /\ Value(request)[k] # v
    /\ request' = Some([Value(request) EXCEPT ![k] = v])
    /\ pc' = "altered"
    /\ UNCHANGED <<config, wsConfig, op, body, fetchCalls, outcome, original, reply, signVars>>

\* one field is removed on the way, the fp_hash kept
DropField(k) ==
    /\ pc = "delivered"
    /\ request' = Some([j \in (DOMAIN Value(request)) \ {k} |-> Value(request)[j]])
    /\ pc' = "altered"
    /\ UNCHANGED <<config, wsConfig, op, body, fetchCalls, outcome, original, reply, signVars>>

VerifyResponse ==
    /\ pc \in {"delivered", "altered"}
    /\ outcome' = verifyResponse(Value(request))
    /\ pc' = "done"
    /\ UNCHANGED <<config, wsConfig, op, request, body, fetchCalls, original, reply, signVars>>

VerifyNext ==
    \/ \E kind \in HashKinds : GatewaySends(kind)
    \/ GatewaySendsUnsigned
    \/ \E k \in CallbackFieldNames, v \in TamperValues : Tamper(k, v)
    \/ \E k \in CallbackFieldNames : DropField(k)
    \/ VerifyResponse

VerifySpec == VerifyInit /\ [][VerifyNext]_vars

(***************************************************************************)
(* Claims about verifyResponse (checked under VerifySpec)                  *)
(***************************************************************************)
VerifyDone == pc = "done" /\ op = "verifyResponse" /\ IsDefined(outcome)

\* the protocol's framing of one value, stated independently of the code
ProtocolFrame(v) == IF v = "" THEN "-" ELSE ToString(Len(v)) \o v

\* cb carries all ten fields and the upper-case primary-key signature of
\* their framed values in protocol order
Authentic(cb) ==
    /\ CallbackFieldNames \cup {"fp_hash"} \subseteq DOMAIN cb
    /\ cb.fp_hash =
         [key |-> BufferFromHex(config.secretKey),
          msg |-> ProtocolFrame(cb.amount) \o ProtocolFrame(cb.curr)
                  \o ProtocolFrame(cb.invoice_id) \o ProtocolFrame(cb.ep_id)
                  \o ProtocolFrame(cb.merch_id) \o ProtocolFrame(cb.action)
                  \o ProtocolFrame(cb.message) \o ProtocolFrame(cb.approval)
                  \o ProtocolFrame(cb.timestamp) \o ProtocolFrame(cb.nonce),
          hex |-> "upper"]

\* C1: verifyResponse returns a status exactly when the callback carries all
\* ten fields and an fp_hash equal, case included, to the primary-key
\* signature over them in order; for every other callback it raises.
C1_OnlyAuthenticCallbacksReturn ==
    VerifyDone =>
        /\ Value(outcome).kind \in {"returned", "raised"}
        /\ Value(outcome).kind = "returned" <=> Authentic(Value(request))
        /\ Value(outcome).kind = "returned" =>
              /\ Value(outcome).value.fpHash = Some(Value(request).fp_hash)
              /\ Value(outcome).value.amount = Some(Value(request).amount)

\* C1 witness: a callback whose fp_hash is the right signature in lower case
\* was verified, and verifyResponse raised.
C1_Witness ==
    /\ VerifyDone
    /\ request = original
    /\ CallbackFieldNames \cup {"fp_hash"} \subseteq DOMAIN Value(request)
    /\ Value(request).fp_hash.hex = "lower"
    /\ Authentic([Value(request) EXCEPT !.fp_hash = ToUpperCase(@)])
    /\ Value(outcome).kind = "raised"

SignedByPrimary(cb) ==
    /\ "fp_hash" \in DOMAIN cb
    /\ Some(cb.fp_hash) = generateHash(GatewayData(cb))

DiffersInOneField(cb, orig) ==
    /\ DOMAIN cb = DOMAIN orig
    /\ Cardinality({ k \in CallbackFieldNames : cb[k] # orig[k] }) = 1
    /\ cb.fp_hash = orig.fp_hash

\* C2: a callback carrying the fp_hash the signer computes over its ten
\* fields with the primary key is accepted; with the value of one of the
\* ten fields changed and the fp_hash kept, verifyResponse fails.
C2_RoundTrip ==
    (VerifyDone /\ SignedByPrimary(Value(original))) =>
        /\ request = original => Value(outcome).kind = "returned"
        /\ DiffersInOneField(Value(request), Value(original))
              => Value(outcome).kind = "raised"

\* C2 witness: a correctly signed callback had one field changed and was
\* rejected for its signature.
C2_Witness ==
    /\ VerifyDone
    /\ SignedByPrimary(Value(original))
    /\ DiffersInOneField(Value(request), Value(original))
    /\ Value(request).approval # Value(original).approval
    /\ Value(outcome).kind = "raised"
    /\ Value(outcome).error = "EuPlatescError"

(***************************************************************************)
(* Specification Spec: one client, one invocation of a public operation.   *)
(* A web-service operation runs up to its await of fetch in one step and   *)
(* resumes, in a second step, when the transport settles the call.         *)
(***************************************************************************)
Timestamps == { "20240101120000" }
Nonces == { "5f2c9a1be07d43886a10c4e2b7f95d3011aa64c09e8b7f2d5c3a19e6048bd7f1",
            "c01d7e93a4b25f68091e3d7ac6b4f8502e9d1c73a5b6084f7e2d9c1b3a405f6e" }

CheckStatusRequests ==
    { EmptyObject, [epid |-> "EP1"], [invoiceId |-> "INV1"],
      [epid |-> "", invoiceId |-> "INV1"], [epid |-> "EP1", invoiceId |-> "INV1"] }
CancelRequests ==
    { [epid |-> "EP1"], [epid |-> "EP1", reason |-> ""], [epid |-> "EP1", reason |-> "closed"] }
RefundRequests ==
    { [epid |-> "EP1", amount |-> 5000, reason |-> "returned goods"],
      [epid |-> "EP1", amount |-> 1005, reason |-> ""] }
CaptureRequests ==
    { [epid |-> "EP1"], [epid |-> "EP1", amount |-> 5000], [epid |-> "EP1", amount |-> 0] }
NoArguments == { EmptyObject }
CardArtRequests == { [epid |-> "EP1"], [epid |-> ""] }
SavedCardsRequests == { [c2pId |-> "C2P1"] }
CapturedTotalsRequests ==
    { [mids |-> <<"M1">>], [mids |-> <<"M1", "M2">>, from |-> "2024-01-01"],
      [mids |-> << >>, from |-> "2024-01-01", to |-> "2024-01-31"] }
InvoicesRequests ==
    { EmptyObject, [from |-> "2024-01-01"], [from |-> "2024-01-01", to |-> "2024-01-31"] }
InvoiceTransactionsRequests == { [invoiceNumber |-> "FPS00000001"] }

SampleBilling ==
    [firstName |-> "Ana", lastName |-> "Pop", address |-> "Str. 1", city |-> "Cluj",
     state |-> "CJ", zipCode |-> "400000", country |-> "RO", phone |-> "0700",
     email |-> "ana@example.com"]
BasePayment ==
    [amount |-> 10050, currency |-> "RON", invoiceId |-> "INV1", orderDescription |-> "x"]
PaymentRequests ==
    { BasePayment,
      Spread(BasePayment, [generateEpid |-> TRUE, lang |-> "ro"]),
      Spread(BasePayment, [generateEpid |-> FALSE, valability |-> "20240102120000",
                           c2pId |-> "C2P1", c2pCid |-> ""]),
      Spread(BasePayment, [recurent |-> [type |-> "Base", frequency |-> 30,
                                         expiry |-> "20251231"]]),
      Spread(BasePayment, [billingDetails |-> SampleBilling,
                           shippingDetails |-> Spread(SampleBilling, [company |-> "ACME"])]),
      Spread(BasePayment, [invoiceId |-> "", orderDescription |-> "",
                           extraData |-> [silentUrl |-> "https://shop.example/ipn",
                                          rate |-> "", epChannel |-> <<"CC", "OP">>]]) }

\* the callbacks handed to verifyResponse: signed by the gateway, signed in
\* lower case, and with approval absent
ClientCallbacks ==
    LET cb == CHOOSE c \in Callbacks : c.amount = "1.00" /\ c.approval = "" /\ c.nonce = "n1" /\ c.action = "0"
    IN { Spread(cb, [fp_hash |-> HashOfKind("primary", cb)]),
         Spread(cb, [fp_hash |-> HashOfKind("lowercase", cb)]),
         cb,
         [k \in (DOMAIN cb) \ {"approval"} |-> cb[k]] }

\* JSON bodies of a reply
ReplyObjects ==
    { Spread(Spread(e, c), Spread(su, n)) :
        e \in { EmptyObject, [error |-> JStr("bad epid")] },
        c \in { EmptyObject, [cards |-> JArray(<< >>)] },
        su \in { EmptyObject } \cup
               { [success |-> x] : x \in { JStr("1"), JStr("0"), JNull, JArray(<< >>),
                                           JObject([success |-> JStr("1")]),
                                           JObject([success |-> JStr("0")]),
                                           JObject([EUR |-> JStr("10.00")]) } },
        n \in { EmptyObject, [name |-> JStr("Shop")] } }

ReplyBodies ==
    { NotJson, Json(JNull), Json(JStr("1")), Json(JNum(1)), Json(JBool(TRUE)),
      Json(JArray(<< >>)) }
    \cup { Json(JObject(m)) : m \in ReplyObjects }

Replies ==
    { Rejects(TRUE, "fetch failed"), Rejects(FALSE, "aborted") }
    \cup { Responds(st, b) : st \in {200, 404, 500}, b \in ReplyBodies }

Init ==
    /\ config \in Configs
    /\ wsConfig \in {Undefined} \cup WsConfigs
    /\ pc = "idle"
    /\ op = ""
    /\ request = Undefined
    /\ body = Undefined
    /\ fetchCalls = 0
    /\ outcome = Undefined
    /\ original = Undefined
    /\ reply = Undefined
    /\ fields = <<>>
    /\ other = <<>>
    /\ signer = ""
    /\ sig1 = Undefined
    /\ sig2 = Undefined

\* the invocation ends at once with `result` (Promise resolved)
ReturnNow(result) ==
    /\ outcome' = Returned(result)
    /\ pc' = "done"
    /\ UNCHANGED <<body, fetchCalls, reply>>

\* the invocation ends at once by throwing
ThrowNow(errorClass, msg) ==
    /\ outcome' = Raised(errorClass, msg)
    /\ pc' = "done"
    /\ UNCHANGED <<body, fetchCalls, reply>>

\* makeWebServiceRequest({...data, fp_hash: fpHash}) up to `await fetch(...)`
Fetch(data, fpHash) ==
    IF ~IsDefined(fpHash)
    THEN ThrowNow("TypeError", "Cannot read properties of undefined (reading 'length')")
    ELSE /\ body' = Some(WithHash(data, fpHash))
         /\ fetchCalls' = fetchCalls + 1
         /\ pc' = "awaiting"
         /\ UNCHANGED <<outcome, reply>>

Invoke(name, req) ==
    /\ pc = "idle"
    /\ op' = name
    /\ request' = Some(req)
    /\ UNCHANGED <<config, wsConfig, original, signVars>>

CreatePayment(req) ==
    /\ Invoke("createPayment", req)
    /\ \E timestamp \in Timestamps, nonce \in Nonces :
          LET response == createPayment(req, timestamp, nonce)
          IN IF IsDefined(response)
             THEN /\ outcome' = Returned(Value(response))
                  /\ body' = Some(Value(response).redirectUrl.query)
                  /\ pc' = "done"
                  /\ UNCHANGED <<fetchCalls, reply>>
             ELSE ThrowNow("TypeError", "Cannot read properties of undefined (reading 'length')")

VerifyCallback(responseData) ==
    /\ Invoke("verifyResponse", responseData)
    /\ outcome' = verifyResponse(responseData)
    /\ pc' = "done"
    /\ UNCHANGED <<body, fetchCalls, reply>>

\* checkStatus without its wsConfig check
CheckStatusUnchecked(req) ==
    /\ Invoke("checkStatus", req)
    /\ \E timestamp \in Timestamps, nonce \in Nonces :
          LET data == checkStatusData(req, timestamp, nonce)
          IN Fetch(data, generateHash(data))

CheckStatus(req) ==
    /\ Invoke("checkStatus", req)
    /\ IF ~IsDefined(wsConfig) THEN ReturnNow(WsRequired)
       ELSE \E timestamp \in Timestamps, nonce \in Nonces :
               LET data == checkStatusData(req, timestamp, nonce)
               IN Fetch(data, generateHash(data))

CancelRecurring(req) ==
    /\ Invoke("cancelRecurring", req)
    /\ IF ~IsDefined(wsConfig) THEN ReturnNow(WsRequired)
       ELSE \E timestamp \in Timestamps, nonce \in Nonces :
               LET data == cancelRecurringData(req, timestamp, nonce)
               IN Fetch(data, generateUapiHash(data))

Refund(req) ==
    /\ Invoke("refund", req)
    /\ IF ~IsDefined(wsConfig) THEN ReturnNow(WsRequired)
       ELSE \E timestamp \in Timestamps, nonce \in Nonces :
               LET data == refundData(req, timestamp, nonce)
               IN Fetch(data, generateUapiHash(data))

Capture(req) ==
    /\ Invoke("capture", req)
    /\ IF ~IsDefined(wsConfig) THEN ReturnNow(WsRequired)
       ELSE \E timestamp \in Timestamps, nonce \in Nonces :
               LET data == captureData(req, timestamp, nonce)
               IN Fetch(data, generateUapiHash(data))

CheckMerchantInfo(req) ==
    /\ Invoke("checkMerchantInfo", req)
    /\ IF ~IsDefined(wsConfig) THEN ReturnNow(WsRequired)
       ELSE \E timestamp \in Timestamps, nonce \in Nonces :
               LET data == checkMerchantInfoData(req, timestamp, nonce)
               IN Fetch(data, generateHash(data))

GetCardArt(req) ==
    /\ Invoke("getCardArt", req)
    /\ IF ~IsDefined(wsConfig) THEN ReturnNow(WsRequired)
       ELSE \E timestamp \in Timestamps, nonce \in Nonces :
               LET data == getCardArtData(req, timestamp, nonce)
               IN Fetch(data, generateUapiHash(data))

GetSavedCards(req) ==
    /\ Invoke("getSavedCards", req)
    /\ IF ~IsDefined(wsConfig) THEN ReturnNow(WsRequired)
       ELSE \E timestamp \in Timestamps, nonce \in Nonces :
               LET data == getSavedCardsData(req, timestamp, nonce)
               IN Fetch(data, generateHash(data))

GetCapturedTotals(req) ==
    /\ Invoke("getCapturedTotals", req)
    /\ IF ~IsDefined(wsConfig) THEN ReturnNow(WsRequired)
       ELSE \E timestamp \in Timestamps, nonce \in Nonces :
               LET data == getCapturedTotalsData(req, timestamp, nonce)
               IN Fetch(data, generateUapiHash(data))

GetInvoices(req) ==
    /\ Invoke("getInvoices", req)
    /\ IF ~IsDefined(wsConfig) THEN ReturnNow(WsRequired)
       ELSE \E timestamp \in Timestamps, nonce \in Nonces :
               LET data == getInvoicesData(req, timestamp, nonce)
               IN Fetch(data, generateUapiHash(data))

GetInvoiceTransactions(req) ==
    /\ Invoke("getInvoiceTransactions", req)
    /\ IF ~IsDefined(wsConfig) THEN ReturnNow(WsRequired)
       ELSE \E timestamp \in Timestamps, nonce \in Nonces :
               LET data == getInvoiceTransactionsData(req, timestamp, nonce)
               IN Fetch(data, generateUapiHash(data))

\* what the awaiting operation makes of makeWebServiceRequest's result
finish(name, response) ==
    IF name \in {"refund", "capture"} THEN booleanResult(response) ELSE response

\* FetchSettles with a failed call issued once more
FetchSettlesWithRetry(settlement) ==
    /\ pc = "awaiting"
    /\ reply' = Some(settlement)
    /\ LET response == normalize(settlement)
       IN IF IsDefined(response) /\ ~Value(response).success /\ fetchCalls < 2
          THEN /\ fetchCalls' = fetchCalls + 1
               /\ pc' = "awaiting"
               /\ UNCHANGED outcome
          ELSE /\ outcome' = IF IsDefined(response)
                             THEN Returned(finish(op, Value(response)))
                             ELSE Raised("Error", "uncaught")
               /\ pc' = "done"
               /\ UNCHANGED fetchCalls
    /\ UNCHANGED <<config, wsConfig, op, request, body, original, signVars>>

\* fetch settles with `reply`: makeWebServiceRequest runs to its end, and so
\* does the operation that awaited it
FetchSettles(settlement) ==
    /\ pc = "awaiting"
    /\ reply' = Some(settlement)
    /\ LET response == normalize(settlement)
       IN outcome' = IF IsDefined(response)
                     THEN Returned(finish(op, Value(response)))
                     ELSE Raised("Error", "uncaught")
    /\ pc' = "done"
    /\ UNCHANGED <<config, wsConfig, op, request, body, fetchCalls, original, signVars>>

Next ==
    \/ \E req \in PaymentRequests : CreatePayment(req)
    \/ \E cb \in ClientCallbacks : VerifyCallback(cb)
    \/ \E req \in CheckStatusRequests : CheckStatus(req)
    \/ \E req \in CancelRequests : CancelRecurring(req)
    \/ \E req \in RefundRequests : Refund(req)
    \/ \E req \in CaptureRequests : Capture(req)
    \/ \E req \in NoArguments : CheckMerchantInfo(req)
    \/ \E req \in CardArtRequests : GetCardArt(req)
    \/ \E req \in SavedCardsRequests : GetSavedCards(req)
    \/ \E req \in CapturedTotalsRequests : GetCapturedTotals(req)
    \/ \E req \in InvoicesRequests : GetInvoices(req)
    \/ \E req \in InvoiceTransactionsRequests : GetInvoiceTransactions(req)
    \/ \E settlement \in Replies : FetchSettles(settlement)

Spec == Init /\ [][Next]_vars

(***************************************************************************)
(* Claims about the web-service operations (checked under Spec)            *)
(***************************************************************************)
WebServiceOperations ==
    {"checkStatus", "cancelRecurring", "refund", "capture", "checkMerchantInfo",
     "getCardArt", "getSavedCards", "getCapturedTotals", "getInvoices",
     "getInvoiceTransactions"}

Done == pc = "done" /\ IsDefined(outcome)
WsDone == Done /\ op \in WebServiceOperations
\* the operation's result, when it returned one
Result == Value(outcome).value
\* the operation ended after its fetch was settled
Settled == WsDone /\ IsDefined(reply)
Settlement == Value(reply)
\* the transport answered 2xx with a body that parsed as JSON
GotJson == Settlement.kind = "responds" /\ Ok(Settlement.status) /\ IsDefined(Settlement.body)
ReplyJson == Value(Settlement.body)
HasField(x, k) == "object" \in DOMAIN x /\ k \in DOMAIN x.object
IsMapOrList(x) == "object" \in DOMAIN x \/ "array" \in DOMAIN x
\* operations that return makeWebServiceRequest's result untouched
PassThrough == op \in WebServiceOperations \ {"refund", "capture"}

\* C5: a web-service operation on a client without the secondary credential
\* pair returns the fixed failure and makes no transport call.
C5_NoWsConfigNoCall ==
    (op \in WebServiceOperations /\ ~IsDefined(wsConfig)) =>
        /\ pc = "done"
        /\ outcome = Some([kind |-> "returned",
                           value |-> [success |-> FALSE,
                                      message |-> JStr("WebService configuration required for this operation")]])
        /\ fetchCalls = 0
        /\ body = Undefined
        /\ reply = Undefined

\* C5 witness: refund was called on a client without wsConfig and returned.
C5_Witness ==
    /\ WsDone
    /\ op = "refund"
    /\ ~IsDefined(wsConfig)
    /\ Result.success = FALSE
    /\ fetchCalls = 0

\* rules 1 and 2 and 3 and 5 of the normalizer, common to C6 as stated and
\* as amended
NormalizerRulesOneTwoThreeFive ==
    /\ (Settlement.kind = "rejects" \/ ~Ok(Settlement.status)) =>
          (Result.success = FALSE /\ "message" \in DOMAIN Result)
    /\ (GotJson /\ HasField(ReplyJson, "error")) =>
          (Result.success = FALSE /\ Result.message = ReplyJson.object["error"])
    /\ (GotJson /\ ~HasField(ReplyJson, "error") /\ HasField(ReplyJson, "cards")) =>
          Result = [success |-> TRUE, data |-> ReplyJson]
    /\ (GotJson /\ ~HasField(ReplyJson, "error") /\ ~HasField(ReplyJson, "cards")
          /\ HasField(ReplyJson, "success")) =>
          Result = [success |-> TRUE, data |-> ReplyJson.object["success"]]

\* C6 (as stated): the normalizer's rules apply in fixed priority: transport
\* exception or non-2xx gives failure; else an error field gives failure with
\* its text; else a cards field gives the reply as-is; else any reply without
\* a success field is returned as-is as success; else the inner success value.
C6_NormalizerPriority ==
    (Settled /\ PassThrough) =>
        /\ NormalizerRulesOneTwoThreeFive
        /\ (GotJson /\ ~HasField(ReplyJson, "error") /\ ~HasField(ReplyJson, "cards")
              /\ ~HasField(ReplyJson, "success")) =>
              Result = [success |-> TRUE, data |-> ReplyJson]

\* C6 (amended): as C6, with the fourth rule for replies that are JSON maps
\* or lists; a 2xx reply that is not JSON, or is null or a scalar, gives
\* failure.
C6_NormalizerPriorityMapsAndLists ==
    (Settled /\ PassThrough) =>
        /\ NormalizerRulesOneTwoThreeFive
        /\ (GotJson /\ IsMapOrList(ReplyJson)
              /\ ~HasField(ReplyJson, "error") /\ ~HasField(ReplyJson, "cards")
              /\ ~HasField(ReplyJson, "success")) =>
              Result = [success |-> TRUE, data |-> ReplyJson]
        /\ (Settlement.kind = "responds" /\ Ok(Settlement.status)
              /\ (~IsDefined(Settlement.body) \/ ~IsMapOrList(ReplyJson))) =>
              (Result.success = FALSE /\ "message" \in DOMAIN Result)

\* C6 witness: a 2xx reply with error, cards and success fields together was
\* normalized to a failure carrying the error text.
C6_Witness ==
    /\ Settled
    /\ PassThrough
    /\ GotJson
    /\ HasField(ReplyJson, "error")
    /\ HasField(ReplyJson, "cards")
    /\ HasField(ReplyJson, "success")
    /\ Result = [success |-> FALSE, message |-> JStr("bad epid")]

\* C7: for refund and capture the payload is true exactly when the normalized
\* call succeeded and the normalized payload's nested success field is "1".
C7_BooleanNormalization ==
    (Settled /\ op \in {"refund", "capture"}) =>
        LET normalized == Value(normalize(Settlement))
        IN /\ "data" \in DOMAIN Result
           /\ Result.success = normalized.success
           /\ Result.data = JBool(/\ normalized.success
                                  /\ HasField(normalized.data, "success")
                                  /\ normalized.data.object["success"] = JStr("1"))
           /\ Settlement = Responds(200, Json(JObject([success |-> JObject([success |-> JStr("1")])])))
                 => Result = [success |-> TRUE, data |-> JBool(TRUE)]
           /\ Settlement = Responds(200, Json(JObject([success |-> JObject([success |-> JStr("0")])])))
                 => Result = [success |-> TRUE, data |-> JBool(FALSE)]
           /\ Settlement = Responds(200, Json(JObject([error |-> JStr("bad epid")])))
                 => (Result.success = FALSE /\ Result.message = JStr("bad epid"))

\* C7 witness: a refund whose reply was {success: {success: "1"}} returned
\* success with the payload true.
C7_Witness ==
    /\ Settled
    /\ op = "refund"
    /\ Settlement = Responds(200, Json(JObject([success |-> JObject([success |-> JStr("1")])])))
    /\ Result.data = JBool(TRUE)

\* C8: a refund or capture answered 2xx with the simple success body
\* {success: '1'} results in success = true with data = true.
C8_SimpleSuccessIsTrue ==
    (/\ Settled
     /\ op \in {"refund", "capture"}
     /\ GotJson
     /\ ReplyJson = JObject([success |-> JStr("1")])) =>
        (Result.success = TRUE /\ Result.data = JBool(TRUE))

UniformResult(r) ==
    \/ r.success = TRUE /\ "data" \in DOMAIN r /\ "message" \notin DOMAIN r
    \/ r.success = FALSE /\ "message" \in DOMAIN r /\ "data" \notin DOMAIN r

\* C9 (as stated): every result of every web-service operation is either
\* success with data and no message, or failure with a message and no data.
C9_UniformResult ==
    WsDone => (Value(outcome).kind = "returned" /\ UniformResult(Result))

\* C9 (amended): as C9, except that refund and capture, when their
\* web-service call fails, return the failure with its message and data = false.
C9_UniformResultButBooleanFailures ==
    WsDone =>
        /\ Value(outcome).kind = "returned"
        /\ \/ UniformResult(Result)
           \/ /\ op \in {"refund", "capture"}
              /\ IsDefined(reply)
              /\ Result.success = FALSE
              /\ "message" \in DOMAIN Result
              /\ "data" \in DOMAIN Result
              /\ Result.data = JBool(FALSE)
        /\ (op \in {"refund", "capture"} /\ IsDefined(reply) /\ Result.success = FALSE)
              => ~UniformResult(Result)

\* C9 witness: a capture whose call met an HTTP error returned a failure
\* with a message and data = false.
C9_Witness ==
    /\ Settled
    /\ op = "capture"
    /\ Settlement.kind = "responds"
    /\ Settlement.status = 500
    /\ Result = [success |-> FALSE, message |-> JStr("HTTP error! status: 500"),
                 data |-> JBool(FALSE)]

Sent == IsDefined(body)
Payload == Value(body)
\* the names of the payload's fields, in no order
PayloadNames == { Payload[i].name : i \in 1..Len(Payload) }
\* the request of the invocation carries the input k
Carries(k) == k \in DOMAIN Value(request)
\* for operation `name`, input k absent from the request means field n is
\* absent from the payload
OmittedWhenAbsent(name, k, n) ==
    (Sent /\ op = name /\ ~Carries(k)) => n \notin PayloadNames

\* C11 (as stated): an absent input value is left out of the signed field set
\* and never rendered as the empty value: the optional fields of
\* createPayment, epid/invoiceId of checkStatus, amount of capture, reason of
\* cancelRecurring, from/to of getCapturedTotals and getInvoices, and in
\* verifyResponse an absent callback field is not handed to the signer.
C11_AbsentInputsOmitted ==
    /\ OmittedWhenAbsent("createPayment", "generateEpid", "generate_epid")
    /\ OmittedWhenAbsent("createPayment", "valability", "valability")
    /\ OmittedWhenAbsent("createPayment", "c2pId", "c2p_id")
    /\ OmittedWhenAbsent("createPayment", "c2pCid", "c2p_cid")
    /\ OmittedWhenAbsent("createPayment", "lang", "lang")
    /\ OmittedWhenAbsent("checkStatus", "epid", "epid")
    /\ OmittedWhenAbsent("checkStatus", "invoiceId", "invoice_id")
    /\ OmittedWhenAbsent("capture", "amount", "amount")
    /\ OmittedWhenAbsent("cancelRecurring", "reason", "reason")
    /\ OmittedWhenAbsent("getCapturedTotals", "from", "from")
    /\ OmittedWhenAbsent("getCapturedTotals", "to", "to")
    /\ OmittedWhenAbsent("getInvoices", "from", "from")
    /\ OmittedWhenAbsent("getInvoices", "to", "to")
    /\ (Done /\ op = "verifyResponse" /\ ~Carries("approval")) =>
          ~(Value(outcome).kind = "raised" /\ Value(outcome).error = "TypeError")

\* the names of the payload's fields, in the order they were emitted
PayloadOrder == [i \in 1..Len(Payload) |-> Payload[i].name]

\* C12 (as stated): capture selects the method 'capture' and signs no amount
\* exactly when the request carries no amount; whenever the request carries
\* an amount it selects 'partial_capture' and places amount, rendered with
\* two decimals, between epid and timestamp.
C12_CaptureMethodFollowsAmount ==
    (Sent /\ op = "capture") =>
        IF ~Carries("amount")
        THEN /\ Payload[1] = Field("method", "capture")
             /\ PayloadOrder = <<"method", "ukey", "epid", "timestamp", "nonce", "fp_hash">>
        ELSE /\ Payload[1] = Field("method", "partial_capture")
             /\ PayloadOrder = <<"method", "ukey", "epid", "amount", "timestamp", "nonce",
                                 "fp_hash">>
             /\ Payload[4] = Field("amount", toFixed2(Value(request).amount))
             /\ Value(request).amount = 5000 => Payload[4].value = Some("50.00")

\* the request of the invocation with its input k taken out
Without(k) == [x \in (DOMAIN Value(request)) \ {k} |-> Value(request)[x]]
\* the value of the payload's field n (the field is present)
PayloadValue(n) ==
    LET i == CHOOSE j \in 1..Len(Payload) : Payload[j].name = n
    IN Value(Payload[i].value)

\* C13 (as stated): the redirect URL createPayment returns for a request with
\* a recurring configuration (recurent) carries that configuration: the
\* query is not the one the same request without recurent gets (same
\* timestamp and nonce), and it has parameters that one lacks.
C13_RedirectCarriesRecurring ==
    (Done /\ op = "createPayment" /\ Carries("recurent")
          /\ Value(outcome).kind = "returned") =>
        LET plain == createPayment(Without("recurent"),
                                   PayloadValue("timestamp"), PayloadValue("nonce"))
        IN /\ Result.redirectUrl.query # Value(plain).redirectUrl.query
           /\ Len(Result.redirectUrl.query) > Len(Value(plain).redirectUrl.query)

\* operations whose payload is signed with the primary key
PrimaryKeyOperations == {"createPayment", "checkStatus", "checkMerchantInfo", "getSavedCards"}
\* operations whose payload is signed with the secondary key
UapiKeyOperations ==
    {"cancelRecurring", "refund", "capture", "getCardArt", "getCapturedTotals",
     "getInvoices", "getInvoiceTransactions"}

\* the protocol fields each operation signs, in protocol order
ProtocolFields(name) ==
    CASE name = "createPayment" ->
            <<"amount", "curr", "invoice_id", "order_desc", "merch_id", "timestamp", "nonce",
              "generate_epid", "valability", "c2p_id", "c2p_cid", "lang">>
      [] name = "checkStatus" -> <<"method", "mid", "timestamp", "nonce", "epid", "invoice_id">>
      [] name = "cancelRecurring" -> <<"method", "ukey", "epid", "reason", "timestamp", "nonce">>
      [] name = "refund" ->
            <<"method", "ukey", "epid", "amount", "reason", "timestamp", "nonce">>
      [] name = "capture" -> <<"method", "ukey", "epid", "amount", "timestamp", "nonce">>
      [] name = "checkMerchantInfo" -> <<"method", "mid", "timestamp", "nonce">>
      [] name = "getCardArt" -> <<"method", "ukey", "ep_id", "timestamp", "nonce">>
      [] name = "getSavedCards" -> <<"method", "mid", "c2p_id", "timestamp", "nonce">>
      [] name = "getCapturedTotals" ->
            <<"method", "ukey", "mids", "from", "to", "timestamp", "nonce">>
      [] name = "getInvoices" -> <<"method", "ukey", "mid", "from", "to", "timestamp", "nonce">>
      [] name = "getInvoiceTransactions" ->
            <<"method", "ukey", "invoice", "timestamp", "nonce">>

\* the protocol fields an operation may leave out
OptionalFields(name) ==
    CASE name = "createPayment" -> {"generate_epid", "valability", "c2p_id", "c2p_cid", "lang"}
      [] name = "checkStatus" -> {"epid", "invoice_id"}
      [] name = "capture" -> {"amount"}
      [] OTHER -> {}

\* where fp_hash stands in the payload
HashIndex == CHOOSE i \in 1..Len(Payload) : Payload[i].name = "fp_hash"
\* the fields emitted before fp_hash
Preceding == SubSeq(Payload, 1, HashIndex - 1)
PrecedingNames == [i \in 1..Len(Preceding) |-> Preceding[i].name]
\* the key bytes fixed for the operation
KeyOf(name) ==
    IF name \in PrimaryKeyOperations THEN BufferFromHex(config.secretKey)
    ELSE BufferFromHex(Value(wsConfig).uapiKey)

\* C14: in every outbound payload fp_hash is the signer's output over exactly
\* the operation's protocol fields that precede it, in the order emitted
\* (none extra, missing or reordered), under the key fixed for the operation:
\* the primary key for createPayment, checkStatus, checkMerchantInfo and
\* getSavedCards, the secondary key for the seven other operations.
C14_HashCoversProtocolFields ==
    Sent =>
        /\ op \in PrimaryKeyOperations \cup UapiKeyOperations
        /\ Cardinality({ i \in 1..Len(Payload) : Payload[i].name = "fp_hash" }) = 1
        /\ op \in WebServiceOperations => HashIndex = Len(Payload)
        /\ PrecedingNames =
              SelectSeq(ProtocolFields(op),
                        LAMBDA n : n \notin OptionalFields(op) \/ n \in PayloadNames)
        /\ Payload[HashIndex].value =
              Some([key |-> KeyOf(op),
                    msg |-> HmacInput(ObjectValues(Preceding)),
                    hex |-> "upper"])

\* C14 witness: a refund on a client whose secondary key decodes to other
\* bytes than the primary key was sent with the signature of its seven
\* fields under the secondary key.
C14_Witness ==
    /\ Sent
    /\ op = "refund"
    /\ BufferFromHex(Value(wsConfig).uapiKey) # BufferFromHex(config.secretKey)
    /\ Value(request).reason = "returned goods"
    /\ PayloadValue("nonce") = "5f2c9a1be07d43886a10c4e2b7f95d3011aa64c09e8b7f2d5c3a19e6048bd7f1"
    /\ Payload[8] =
          [name |-> "fp_hash",
           value |-> Some([key |-> <<194, 211>>,
                           msg |-> "6refund2U13EP1550.0014returned goods1420240101120000645f2c9a1be07d43886a10c4e2b7f95d3011aa64c09e8b7f2d5c3a19e6048bd7f1",
                           hex |-> "upper"])]

Contains(s, t) ==
    \E i \in 1..(Len(s) - Len(t) + 1) : SubSeq(s, i, i + Len(t) - 1) = t

\* the strings held by a JSON value
RECURSIVE JsonStrings(_)
JsonStrings(x) ==
    IF "string" \in DOMAIN x THEN { x.string }
    ELSE IF "object" \in DOMAIN x
    THEN UNION { JsonStrings(x.object[k]) : k \in DOMAIN x.object }
    ELSE IF "array" \in DOMAIN x
    THEN UNION { JsonStrings(x.array[i]) : i \in 1..Len(x.array) }
    ELSE {}

\* the names and values of an ordered field set, fp_hash (an HMAC output) aside
FieldStrings(data) ==
    UNION { {data[i].name} \cup (IF data[i].name = "fp_hash" THEN {}
                                 ELSE {Value(data[i].value)}) : i \in 1..Len(data) }

\* the strings of a uniform result: its message and its data payload
ResultStrings(result) ==
    UNION { JsonStrings(result[k]) : k \in (DOMAIN result) \cap {"message", "data"} }

\* every string the invocation has put in a payload, a redirect URL, a result
\* or a raised error
Emitted ==
    (IF Sent THEN FieldStrings(Payload) ELSE {})
    \cup (IF ~IsDefined(outcome) THEN {}
          ELSE IF Value(outcome).kind = "raised"
          THEN { Value(outcome).error, Value(outcome).message }
          ELSE IF op = "createPayment"
          THEN {Result.redirectUrl.endpoint} \cup FieldStrings(Result.redirectUrl.query)
          ELSE IF op = "verifyResponse"
          THEN { Value(Result[k]) : k \in { f \in (DOMAIN Result) \ {"fpHash"} :
                                             IsDefined(Result[f]) } }
          ELSE ResultStrings(Result))

\* the secret keys the client was configured with, as text
SecretTexts ==
    {KeyText(config.secretKey)}
    \cup (IF IsDefined(wsConfig) THEN {KeyText(Value(wsConfig).uapiKey)} ELSE {})

\* C16: neither the primary secretKey nor the secondary uapiKey appears in
\* any field of an ordered field set, redirect URL or POST body, nor in the
\* message or payload of a result or raised error.
C16_KeysNeverEmitted ==
    \A s \in Emitted : \A secret \in SecretTexts : ~Contains(s, secret)

\* C16 witness: a cancelRecurring invocation signed with the secondary key
\* sent its body, whose ukey is the user key, and returned a result.
C16_Witness ==
    /\ Settled
    /\ op = "cancelRecurring"
    /\ KeyText(Value(wsConfig).uapiKey) = "c2D3"
    /\ PayloadValue("ukey") = "U1"
    /\ Payload[HashIndex].value = generateUapiHash(Preceding)
    /\ "message" \in DOMAIN Result
    /\ Emitted # {}

====
